---- MODULE Spec2Model ----
(***************************************************************************)
(* Flamenco Blender add-on: Manager info cache (manager_info.py), refresh  *)
(* of the scene against a Manager (comms.py) and the worker-tag enum       *)
(* (worker_tags.py).                                                       *)
(***************************************************************************)
EXTENDS Integers, Sequences, FiniteSets, TLC

VARIABLES
    cache,          \* manager_info._cached_manager_info
    disk,           \* the file flamenco-manager-info.json
    job_type_sel,   \* scene.flamenco_job_type (ID property; Unset when deleted)
    worker_tag_sel, \* scene.flamenco_worker_tag
    status_ping,    \* window_manager.flamenco_status_ping
    last,           \* the last operation that ran, and what it returned or raised
    flamenco_client, \* comms._flamenco_client: 0 for None, else which ApiClient
    clients,        \* every ApiClient constructed so far, in order
    threads         \* the calls of fetch in progress, one per thread

vars == <<cache, disk, job_type_sel, worker_tag_sel, status_ping, last,
          flamenco_client, clients, threads>>

\* What the functions of manager_info and ping_manager never touch: the API
\* client of comms and the locals of other calls in progress.
elsewhere == <<flamenco_client, clients, threads>>

-----------------------------------------------------------------------------
(* Bounds of the model. *)

\* Longest job-type list a Manager answers with.
MaxJobTypes == 1
\* Longest worker-tag list a Manager answers with.
MaxTags == 2
\* Most ApiClient objects constructed in one run.
MaxClients == 3
\* Most calls of fetch one thread makes.
MaxFetches == 2

-----------------------------------------------------------------------------
(* Python values. *)

\* Python's None.
None == [none |-> TRUE]

\* An ID property that was deleted from (or never stored on) the scene.
Unset == ""

\* An OpenAPI model object: its class and its attributes.
Model(type, attrs) == [type |-> type, attrs |-> attrs]

Range(s) == {s[i] : i \in DOMAIN s}

\* The sequences over S of length at most n that repeat no element
\* (identifiers are unique within one list of a Manager).
UniqueSeqs(S, n) ==
    UNION {{s \in [1..k -> S] : \A i, j \in 1..k : s[i] = s[j] => i = j} : k \in 0..n}

-----------------------------------------------------------------------------
(* What a Manager can answer. *)

VersionStrings == {"3.5", "3.6"}
JobTypeNames == {"render", "simulate"}
TagIds == {"gpu", "cpu-only"}

FlamencoVersion(v) ==
    Model("FlamencoVersion", [name |-> "Flamenco", version |-> v])

SharedStorageLocation ==
    Model("SharedStorageLocation", [location |-> "/mnt/flamenco"])

AvailableJobType(n) == Model("AvailableJobType", [name |-> n, label |-> n])

AvailableJobTypes(names) ==
    Model("AvailableJobTypes",
          [job_types |-> [i \in DOMAIN names |-> AvailableJobType(names[i])]])

\* The tag "gpu" carries the optional description, "cpu-only" does not.
WorkerTag(id) ==
    IF id = "gpu"
    THEN Model("WorkerTag", [id |-> id, name |-> "GPU", description |-> "Has a GPU"])
    ELSE Model("WorkerTag", [id |-> id, name |-> "CPU only"])

WorkerTagList(ids) ==
    Model("WorkerTagList", [tags |-> [i \in DOMAIN ids |-> WorkerTag(ids[i])]])

\* The dataclass ManagerInfo.
ManagerInfo(fv, ss, jt, wt) ==
    [flamenco_version |-> fv, shared_storage |-> ss, job_types |-> jt, worker_tags |-> wt]

\* Every snapshot a Manager can be in, within the bounds.
ManagerInfos ==
    {ManagerInfo(FlamencoVersion(v), SharedStorageLocation,
                 AvailableJobTypes(jt), WorkerTagList(wt)) :
        v \in VersionStrings,
        jt \in UniqueSeqs(JobTypeNames, MaxJobTypes),
        wt \in UniqueSeqs(TagIds, MaxTags)}

-----------------------------------------------------------------------------
(* manager_info.fetch *)

\* The exceptions the API client raises: an API-level error response, the
\* transport's max-retries condition, and another transport-level error.
Exceptions ==
    { [cls |-> "ApiException", text |-> "(500) Reason: Internal Server Error"],
      [cls |-> "MaxRetryError", text |-> "Max retries exceeded with url: /api/v3/version"],
      [cls |-> "ProtocolError", text |-> "Connection aborted."] }

\* The classes an exception class is an instance of (itself and its bases):
\* MaxRetryError and ProtocolError both derive from urllib3's HTTPError.
ClassesOf(cls) ==
    CASE cls = "ApiException" -> {"ApiException"}
      [] cls = "MaxRetryError" -> {"MaxRetryError", "HTTPError"}
      [] cls = "ProtocolError" -> {"ProtocolError", "HTTPError"}
      [] OTHER -> {cls}

\* The remote calls of fetch, in the order it makes them.
FetchCalls == <<"get_version", "get_shared_storage", "get_job_types", "fetch_worker_tags">>

\* How a call ends: it returns a value or raises an exception.
Return(value) == [raised |-> FALSE, value |-> value]
Raise(exc) == [raised |-> TRUE, exc |-> exc]

\* A Manager in state info answers each call with its part of info.
Healthy(info) ==
    [i \in DOMAIN FetchCalls |->
        CASE i = 1 -> Return(info.flamenco_version)
          [] i = 2 -> Return(info.shared_storage)
          [] i = 3 -> Return(info.job_types)
          [] i = 4 -> Return(info.worker_tags)]

\* The same Manager, but the call at position k raises exc.
Faulty(info, k, exc) == [Healthy(info) EXCEPT ![k] = Raise(exc)]

\* The Manager whose other calls answer when one call fails.
SampleInfo ==
    ManagerInfo(FlamencoVersion("3.6"), SharedStorageLocation,
                AvailableJobTypes(<<"render">>), WorkerTagList(<<"gpu">>))

\* A Manager that has no job types and no worker tags yet.
BareInfo ==
    ManagerInfo(FlamencoVersion("3.5"), SharedStorageLocation,
                AvailableJobTypes(<<>>), WorkerTagList(<<>>))

\* What the four calls of one fetch can meet: every call answers, or one
\* call raises (the calls after it are never made).
Responses ==
    {Healthy(info) : info \in ManagerInfos}
    \cup {Faulty(SampleInfo, k, exc) : k \in DOMAIN FetchCalls, exc \in Exceptions}

\* Mutant of ExceptClauses: HTTPError is caught before MaxRetryError.
ExceptClausesSwapped ==
    << [catches |-> "ApiException", detail |-> TRUE],
       [catches |-> "HTTPError", detail |-> TRUE],
       [catches |-> "MaxRetryError", detail |-> FALSE] >>

\* The except clauses of fetch, in source order; detail is whether the
\* FetchError's text includes the text of the exception caught.
ExceptClauses ==
    << [catches |-> "ApiException", detail |-> TRUE],
       [catches |-> "MaxRetryError", detail |-> FALSE],
       [catches |-> "HTTPError", detail |-> TRUE] >>

\* The first except clause that matches exc (Python tries them in order).
MatchingClause(exc) ==
    LET matching == {i \in DOMAIN ExceptClauses :
                        ExceptClauses[i].catches \in ClassesOf(exc.cls)}
    IN  ExceptClauses[CHOOSE i \in matching : \A j \in matching : i <= j]

\* str() of the FetchError raised for exc.
FetchErrorText(exc) ==
    IF MatchingClause(exc).detail
    THEN "Manager cannot be reached: " \o exc.text
    ELSE "Manager cannot be reached"

\* The position of the first call that raises, 0 when all four answer.
FirstFailure(responses) ==
    LET failing == {i \in DOMAIN responses : responses[i].raised}
    IN  IF failing = {} THEN 0
        ELSE CHOOSE i \in failing : \A j \in failing : i <= j

\* What fetch returns or raises.
FetchResult(responses) ==
    LET k == FirstFailure(responses)
    IN  IF k = 0
        THEN Return(ManagerInfo(responses[1].value, responses[2].value,
                                responses[3].value, responses[4].value))
        ELSE [raised |-> TRUE,
              exc |-> "FetchError",
              text |-> FetchErrorText(responses[k].exc),
              call |-> k,
              cause |-> responses[k].exc]

\* Mutants of CacheAfterFetch: a fetch that leaves the slot to its caller,
\* and a fetch that empties the slot before it tries (as load_into_cache does).
CacheAfterFetchUntouched(old, result) == old

CacheAfterFetchClears(old, result) ==
    IF result.raised THEN None ELSE result.value

\* _cached_manager_info after fetch: assigned only past the try block.
CacheAfterFetch(old, result) ==
    IF result.raised THEN old ELSE result.value

Fetch(responses) ==
    LET result == FetchResult(responses)
    IN  /\ cache' = CacheAfterFetch(cache, result)
        /\ last' = [op |-> "fetch", responses |-> responses, result |-> result]
        /\ UNCHANGED <<elsewhere, disk, job_type_sel, worker_tag_sel, status_ping>>

-----------------------------------------------------------------------------
(* The codec: Encoder, _to_json, _from_json *)

\* dataclasses.fields(ManagerInfo), which is also the key order of type_info().
FieldNames == <<"flamenco_version", "shared_storage", "job_types", "worker_tags">>

\* Mutant of TypeInfo: worker_tags is decoded as the wrong class.
TypeInfoTagsAsJobTypes ==
    [flamenco_version |-> "FlamencoVersion",
     shared_storage |-> "SharedStorageLocation",
     job_types |-> "AvailableJobTypes",
     worker_tags |-> "AvailableJobTypes"]

\* ManagerInfo.type_info(): the API class each field is decoded as.
TypeInfo ==
    [flamenco_version |-> "FlamencoVersion",
     shared_storage |-> "SharedStorageLocation",
     job_types |-> "AvailableJobTypes",
     worker_tags |-> "WorkerTagList"]

\* The schema of each API class: the attributes it requires, and for the
\* attributes that hold a list of models, the class of the list's elements.
SchemaOf(type) ==
    CASE type = "FlamencoVersion" ->
            [required |-> {"name", "version"}, lists |-> <<>>]
      [] type = "SharedStorageLocation" ->
            [required |-> {"location"}, lists |-> <<>>]
      [] type = "AvailableJobType" ->
            [required |-> {"name", "label"}, lists |-> <<>>]
      [] type = "WorkerTag" ->
            [required |-> {"id", "name"}, lists |-> <<>>]
      [] type = "AvailableJobTypes" ->
            [required |-> {"job_types"}, lists |-> [job_types |-> "AvailableJobType"]]
      [] type = "WorkerTagList" ->
            [required |-> {"tags"}, lists |-> [tags |-> "WorkerTag"]]

\* OpenApiModel.to_dict(): the attributes that are set, as a plain mapping;
\* models nested in a list become mappings too. The class is not stored.
ToDict(o) ==
    LET lists == SchemaOf(o.type).lists
    IN  [a \in DOMAIN o.attrs |->
            IF a \in DOMAIN lists
            THEN [i \in DOMAIN o.attrs[a] |-> o.attrs[a][i].attrs]
            ELSE o.attrs[a]]

\* Encoder.default for a ManagerInfo: one key per dataclass field; json.dumps
\* then encodes each field's model through Encoder.default again.
EncodeInfo(info) == [f \in Range(FieldNames) |-> ToDict(info[f])]

\* A text file's content: a JSON document, or text that is no JSON.
JsonText(value) == [wellformed |-> TRUE, value |-> value]
MalformedText == [wellformed |-> FALSE]

\* _to_json
ToJson(info) == JsonText(EncodeInfo(info))

\* validate_and_convert_types(value, (api_type,), ...): the model of class
\* type with the attributes of value, when value has every required
\* attribute of the schema and every listed element is valid in turn.
IsValid(value, type) ==
    LET schema == SchemaOf(type)
    IN  /\ schema.required \subseteq DOMAIN value
        /\ \A a \in DOMAIN schema.lists :
              \A i \in DOMAIN value[a] :
                 SchemaOf(schema.lists[a]).required \subseteq DOMAIN value[a][i]

ConvertTypes(value, type) ==
    LET lists == SchemaOf(type).lists
    IN  Model(type,
              [a \in DOMAIN value |->
                  IF a \in DOMAIN lists
                  THEN [i \in DOMAIN value[a] |-> Model(lists[a], value[a][i])]
                  ELSE value[a]])

\* The first field of type_info(), in order, that _from_json cannot convert:
\* its key is missing from the document or its value is invalid. 0 if none.
FirstBadField(json_dict) ==
    LET bad == {i \in DOMAIN FieldNames :
                   \/ FieldNames[i] \notin DOMAIN json_dict
                   \/ ~IsValid(json_dict[FieldNames[i]], TypeInfo[FieldNames[i]])}
    IN  IF bad = {} THEN 0 ELSE CHOOSE i \in bad : \A j \in bad : i <= j

\* _from_json: the ManagerInfo decoded from contents, or the exception that
\* json.loads, the lookup json_dict[name] or the validation raises.
FromJson(contents) ==
    IF ~contents.wellformed
    THEN Raise("JSONDecodeError")
    ELSE LET json_dict == contents.value
             k == FirstBadField(json_dict)
         IN  IF k = 0
             THEN Return([f \in Range(FieldNames) |->
                             ConvertTypes(json_dict[f], TypeInfo[f])])
             ELSE IF FieldNames[k] \notin DOMAIN json_dict
                  THEN Raise("KeyError")
                  ELSE Raise("ApiTypeError")

-----------------------------------------------------------------------------
(* The cache store: save, load, load_into_cache, load_cached *)

NoFile == [exists |-> FALSE]
File(text) == [exists |-> TRUE, text |-> text]

\* Mutant of DiskAfterSave: the file is created but the text never written.
DiskAfterSaveEmpty(info) == File(MalformedText)

\* save: the file is rewritten with the encoded info.
DiskAfterSave(info) == File(ToJson(info))

\* The exceptions of _from_json that load turns into a LoadError.
LoadCatches == {"JSONDecodeError"}

\* load: the decoded file, or the exception load raises. readable is whether
\* read_text succeeds (it raises OSError otherwise).
LoadResult(file, readable) ==
    IF ~file.exists THEN Raise("FileNotFoundError")
    ELSE IF ~readable THEN Raise("LoadError")
    ELSE LET decoded == FromJson(file.text)
         IN  IF decoded.raised /\ decoded.exc \in LoadCatches
             THEN Raise("LoadError")
             ELSE decoded

\* The exceptions of load that load_into_cache answers with None.
LoadIntoCacheCatches == {"FileNotFoundError", "LoadError"}

\* load_into_cache: the slot is emptied, then filled if load returns.
\* Gives the slot afterwards and how the call ends.
LoadIntoCacheStep(file, readable) ==
    LET loaded == LoadResult(file, readable)
    IN  [cache |-> IF loaded.raised THEN None ELSE loaded.value,
         outcome |-> IF loaded.raised /\ loaded.exc \in LoadIntoCacheCatches
                     THEN Return(None)
                     ELSE loaded]

\* Mutant of LoadCachedStep: the file is read on every call.
LoadCachedStepAlwaysLoads(slot, file, readable) ==
    LoadIntoCacheStep(file, readable)

\* load_cached: the slot's snapshot if there is one, else load_into_cache.
LoadCachedStep(slot, file, readable) ==
    IF slot # None
    THEN [cache |-> slot, outcome |-> Return(slot)]
    ELSE LoadIntoCacheStep(file, readable)

Save(info) ==
    /\ disk' = DiskAfterSave(info)
    /\ last' = [op |-> "save", info |-> info]
    /\ UNCHANGED <<elsewhere, cache, job_type_sel, worker_tag_sel, status_ping>>

Load(readable) ==
    /\ last' = [op |-> "load", result |-> LoadResult(disk, readable),
                readable |-> readable]
    /\ UNCHANGED <<elsewhere, cache, disk, job_type_sel, worker_tag_sel, status_ping>>

\* Mutant of LoadIntoCache: the slot is written only when load returns.
LoadIntoCacheKeepsSlot(readable) ==
    LET step == LoadIntoCacheStep(disk, readable)
    IN  /\ cache' = IF step.cache = None THEN cache ELSE step.cache
        /\ last' = [op |-> "load_into_cache", result |-> step.outcome,
                    readable |-> readable, had_snapshot |-> cache # None]
        /\ UNCHANGED <<elsewhere, disk, job_type_sel, worker_tag_sel, status_ping>>

\* had_snapshot: whether the slot held a snapshot when the call began.
LoadIntoCache(readable) ==
    LET step == LoadIntoCacheStep(disk, readable)
    IN  /\ cache' = step.cache
        /\ last' = [op |-> "load_into_cache", result |-> step.outcome,
                    readable |-> readable, had_snapshot |-> cache # None]
        /\ UNCHANGED <<elsewhere, disk, job_type_sel, worker_tag_sel, status_ping>>

LoadCached(readable) ==
    LET step == LoadCachedStep(cache, disk, readable)
    IN  /\ cache' = step.cache
        /\ last' = [op |-> "load_cached", result |-> step.outcome,
                    readable |-> readable]
        /\ UNCHANGED <<elsewhere, disk, job_type_sel, worker_tag_sel, status_ping>>

\* The file is deleted or rewritten from outside (another Blender, the user).
DiskChanges(file) ==
    /\ disk' = file
    /\ last' = [op |-> "disk_changes"]
    /\ UNCHANGED <<elsewhere, cache, job_type_sel, worker_tag_sel, status_ping>>

-----------------------------------------------------------------------------
(* Files that come from elsewhere. *)

\* mapping without the key k.
Without(mapping, k) == [a \in (DOMAIN mapping) \ {k} |-> mapping[a]]

\* A well-formed document in which one of the four keys is missing.
DocsMissingKey ==
    {JsonText(Without(EncodeInfo(SampleInfo), k)) : k \in Range(FieldNames)}

\* A well-formed document with all four keys and one value that does not
\* fit its schema: a version without "version", a tag without "name".
DocsInvalidField ==
    { JsonText([EncodeInfo(SampleInfo) EXCEPT
                   !.flamenco_version = [name |-> "Flamenco"]]),
      JsonText([EncodeInfo(SampleInfo) EXCEPT
                   !.worker_tags = [tags |-> <<[id |-> "gpu"]>>]]) }

\* What the cache file can be found to be when it was not written by save.
ForeignFiles ==
    {NoFile, File(MalformedText), File(ToJson(SampleInfo))}
    \cup {File(t) : t \in DocsMissingKey \cup DocsInvalidField}

-----------------------------------------------------------------------------
(* worker_tags._get_enum_items and the enum properties of the scene *)

\* Mutant of EnumItems: the tags are listed last first.
EnumItemsReversed(manager) ==
    IF manager = None
    THEN << <<"-", "-tags unknown-",
              "Refresh to load the available Worker tags from the Manager">> >>
    ELSE << <<"-", "All", "No specific tag assigned, any worker can handle this job">> >>
         \o [i \in DOMAIN manager.worker_tags.attrs.tags |->
                LET tags == manager.worker_tags.attrs.tags
                    tag == tags[Len(tags) + 1 - i].attrs
                IN  <<tag.id, tag.name,
                      IF "description" \in DOMAIN tag THEN tag.description ELSE "">>]

\* The items for what load_cached returned.
EnumItems(manager) ==
    IF manager = None
    THEN << <<"-", "-tags unknown-",
              "Refresh to load the available Worker tags from the Manager">> >>
    ELSE << <<"-", "All", "No specific tag assigned, any worker can handle this job">> >>
         \o [i \in DOMAIN manager.worker_tags.attrs.tags |->
                LET tag == manager.worker_tags.attrs.tags[i].attrs
                IN  <<tag.id, tag.name,
                      IF "description" \in DOMAIN tag THEN tag.description ELSE "">>]

\* _get_enum_items: load_cached, then the items. Gives the slot afterwards
\* and how the call ends (an exception of load_cached passes through).
GetEnumItemsStep(slot, file, readable) ==
    LET step == LoadCachedStep(slot, file, readable)
    IN  [cache |-> step.cache,
         outcome |-> IF step.outcome.raised THEN step.outcome
                     ELSE Return(EnumItems(step.outcome.value))]

\* The identifiers an enum property accepts: the first entry of each item.
\* A callback that raised offers nothing.
Identifiers(outcome) ==
    IF outcome.raised THEN {} ELSE {item[1] : item \in Range(outcome.value)}

\* The identifiers of the job-type enum for the job types handed to
\* job_types.refresh_scene_properties: the job types' names.
JobTypeIdentifiers(job_types) ==
    {job_types.attrs.job_types[i].attrs.name : i \in DOMAIN job_types.attrs.job_types}

GetEnumItems(readable) ==
    LET step == GetEnumItemsStep(cache, disk, readable)
    IN  /\ cache' = step.cache
        /\ last' = [op |-> "_get_enum_items", result |-> step.outcome,
                    readable |-> readable]
        /\ UNCHANGED <<elsewhere, disk, job_type_sel, worker_tag_sel, status_ping>>

\* The user picks one of the job types on offer.
SelectJobType(name) ==
    /\ cache # None
    /\ name \in JobTypeIdentifiers(cache.job_types)
    /\ job_type_sel' = name
    /\ last' = [op |-> "select_job_type"]
    /\ UNCHANGED <<elsewhere, cache, disk, worker_tag_sel, status_ping>>

\* The user picks one of the worker tags the enum callback offers.
SelectWorkerTag(id, readable) ==
    LET step == GetEnumItemsStep(cache, disk, readable)
    IN  /\ id \in Identifiers(step.outcome)
        /\ worker_tag_sel' = id
        /\ cache' = step.cache
        /\ last' = [op |-> "select_worker_tag"]
        /\ UNCHANGED <<elsewhere, disk, job_type_sel, status_ping>>

-----------------------------------------------------------------------------
(* comms.ping_manager *)

\* repr() of a string.
Repr(str) == "'" \o str \o "'"

FoundReport(info) ==
    info.flamenco_version.attrs.name \o " version "
        \o info.flamenco_version.attrs.version \o " found"

\* A selection that no restore block has touched.
Untouched(current) ==
    [sel |-> current, assigned |-> FALSE, cleared |-> FALSE, warning |-> <<>>]

\* Mutants of RestoreSelection: the stale property is not deleted; the
\* restore is tried for an empty old value too; the property is deleted
\* whether or not the assignment raised.
RestoreSelectionKeepsStale(kind, old, identifiers, current) ==
    IF old = ""
    THEN Untouched(current)
    ELSE IF old \in identifiers
    THEN [sel |-> old, assigned |-> TRUE, cleared |-> FALSE, warning |-> <<>>]
    ELSE [sel |-> current, assigned |-> FALSE, cleared |-> FALSE,
          warning |-> <<kind \o " " \o "'" \o old \o "'"
                            \o " no longer available, choose another one">>]

RestoreSelectionDeletes(kind, old, identifiers, current) ==
    IF old = ""
    THEN Untouched(current)
    ELSE [sel |-> Unset, assigned |-> old \in identifiers, cleared |-> TRUE,
          warning |-> <<kind \o " " \o "'" \o old \o "'"
                            \o " no longer available, choose another one">>]

RestoreSelectionAlways(kind, old, identifiers, current) ==
    IF old \in identifiers
    THEN [sel |-> old, assigned |-> TRUE, cleared |-> FALSE, warning |-> <<>>]
    ELSE [sel |-> Unset, assigned |-> FALSE, cleared |-> TRUE,
          warning |-> <<kind \o " " \o "'" \o old \o "'"
                            \o " no longer available, choose another one">>]

\* One "try to restore the old value" block: nothing for an empty old value;
\* else the assignment, which raises TypeError when the enum does not accept
\* old, and then the property is deleted and a warning made.
RestoreSelection(kind, old, identifiers, current) ==
    IF old = ""
    THEN Untouched(current)
    ELSE IF old \in identifiers
    THEN [sel |-> old, assigned |-> TRUE, cleared |-> FALSE, warning |-> <<>>]
    ELSE [sel |-> Unset, assigned |-> FALSE, cleared |-> TRUE,
          warning |-> <<kind \o " " \o Repr(old)
                            \o " no longer available, choose another one">>]

\* Mutant of FinalReport: the first warning made is the one reported.
FinalReportFirstWins(found, job_type_warning, tag_warning) ==
    IF job_type_warning # <<>>
    THEN [report |-> job_type_warning[1], level |-> "WARNING"]
    ELSE IF tag_warning # <<>>
    THEN [report |-> tag_warning[1], level |-> "WARNING"]
    ELSE [report |-> found, level |-> "INFO"]

\* report and report_level after the two blocks, job type first.
FinalReport(found, job_type_warning, tag_warning) ==
    LET after_job_type == IF job_type_warning = <<>>
                          THEN [report |-> found, level |-> "INFO"]
                          ELSE [report |-> job_type_warning[1], level |-> "WARNING"]
    IN  IF tag_warning = <<>>
        THEN after_job_type
        ELSE [report |-> tag_warning[1], level |-> "WARNING"]

\* What ping_manager returns, with what it read and did on the way.
PingReturn(report, level, fetch, old_job_type_name, old_tag_name, job_type, tag) ==
    [op |-> "ping_manager", report |-> report, level |-> level, fetch |-> fetch,
     old_job_type_name |-> old_job_type_name, old_tag_name |-> old_tag_name,
     job_type |-> job_type, tag |-> tag]

\* Mutant of PingFailed: the status text is left at "...".
PingFailedStatusLeft(result, old_job_type_name, old_tag_name) ==
    /\ status_ping' = "..."
    /\ last' = [op |-> "ping_manager", report |-> result.text, level |-> "ERROR",
                fetch |-> [raised |-> TRUE, exc |-> result.exc, text |-> result.text,
                           cause |-> result.cause],
                old_job_type_name |-> old_job_type_name,
                old_tag_name |-> old_tag_name,
                job_type |-> Untouched(job_type_sel),
                tag |-> Untouched(worker_tag_sel)]
    /\ UNCHANGED <<elsewhere, disk, job_type_sel, worker_tag_sel>>

\* The branch of ping_manager that handles FetchError.
PingFailed(result, old_job_type_name, old_tag_name) ==
    /\ status_ping' = result.text
    /\ last' = PingReturn(result.text, "ERROR",
                          [raised |-> TRUE, exc |-> result.exc, text |-> result.text,
                           cause |-> result.cause],
                          old_job_type_name, old_tag_name,
                          Untouched(job_type_sel), Untouched(worker_tag_sel))
    /\ UNCHANGED <<elsewhere, disk, job_type_sel, worker_tag_sel>>

\* Mutant of PingFetched: the tag is restored before fetch and save have
\* replaced the snapshot, so the enum callback sees the slot and the file as
\* they were.
PingFetchedRestoresFirst(info, fetched_cache, old_job_type_name, old_tag_name, readable) ==
    \E saved \in {DiskAfterSave(info)} :
    \E job_type \in {RestoreSelection("Job type", old_job_type_name,
                        JobTypeIdentifiers(info.job_types), job_type_sel)} :
    \E items \in {IF old_tag_name = ""
                  THEN [cache |-> cache, outcome |-> Return(<<>>)]
                  ELSE GetEnumItemsStep(cache, disk, readable)} :
    \E tag \in {RestoreSelection("Tag", old_tag_name,
                        Identifiers(items.outcome), worker_tag_sel)} :
    \E final \in {FinalReport(FoundReport(info), job_type.warning, tag.warning)} :
        /\ cache' = fetched_cache
        /\ disk' = saved
        /\ job_type_sel' = job_type.sel
        /\ worker_tag_sel' = tag.sel
        /\ status_ping' = final.report
        /\ last' = PingReturn(final.report, final.level, Return(info),
                              old_job_type_name, old_tag_name, job_type, tag)
        /\ UNCHANGED elsewhere

\* ping_manager past the fetch: save, then the two restore blocks. Assigning
\* the tag runs the enum callback, which reads the slot through load_cached.
PingFetched(info, fetched_cache, old_job_type_name, old_tag_name, readable) ==
    \E saved \in {DiskAfterSave(info)} :
    \E job_type \in {RestoreSelection("Job type", old_job_type_name,
                        JobTypeIdentifiers(info.job_types), job_type_sel)} :
    \E items \in {IF old_tag_name = ""
                  THEN [cache |-> fetched_cache, outcome |-> Return(<<>>)]
                  ELSE GetEnumItemsStep(fetched_cache, saved, readable)} :
    \E tag \in {RestoreSelection("Tag", old_tag_name,
                        Identifiers(items.outcome), worker_tag_sel)} :
    \E final \in {FinalReport(FoundReport(info), job_type.warning, tag.warning)} :
        /\ cache' = items.cache
        /\ disk' = saved
        /\ job_type_sel' = job_type.sel
        /\ worker_tag_sel' = tag.sel
        /\ status_ping' = final.report
        /\ last' = PingReturn(final.report, final.level, Return(info),
                              old_job_type_name, old_tag_name, job_type, tag)
        /\ UNCHANGED elsewhere

\* ping_manager. The status text "..." it sets first is overwritten on every
\* path before it returns. The old values are read before the fetch.
PingManager(responses, readable) ==
    \E old_job_type_name \in {job_type_sel}, old_tag_name \in {worker_tag_sel} :
    \E result \in {FetchResult(responses)} :
    \E fetched_cache \in {CacheAfterFetch(cache, result)} :
        IF result.raised
        THEN /\ cache' = fetched_cache
             /\ PingFailed(result, old_job_type_name, old_tag_name)
        ELSE PingFetched(result.value, fetched_cache,
                         old_job_type_name, old_tag_name, readable)

-----------------------------------------------------------------------------
(* comms.flamenco_api_client and comms.discard_flamenco_data *)

\* Manager URLs as the preferences can hold them, character by character.
ManagerUrls ==
    { <<"m">>, <<"m", "/">>, <<"m", "/", "/">>, <<"/", "n", "/">>, <<"/", "n">> }

\* str.rstrip(char): str without the run of char at its end.
RECURSIVE RStrip(_, _)
RStrip(str, char) ==
    IF str # <<>> /\ str[Len(str)] = char
    THEN RStrip(SubSeq(str, 1, Len(str) - 1), char)
    ELSE str

\* manager.ApiClient(manager.Configuration(host=...)); closes counts the
\* calls of its close().
ApiClient(host) == [host |-> host, closes |-> 0]

\* Mutant of FlamencoApiClientStep: the client in the slot is replaced when
\* the URL differs from its host.
FlamencoApiClientStepFollowsUrl(slot, all, manager_url) ==
    IF slot # 0 /\ all[slot].host = RStrip(manager_url, "/")
    THEN [slot |-> slot, all |-> all, created |-> FALSE]
    ELSE [slot |-> Len(all) + 1,
          all |-> Append(all, ApiClient(RStrip(manager_url, "/"))),
          created |-> TRUE]

\* flamenco_api_client: the slot and the clients afterwards. The client in
\* the slot is returned; one is constructed only when the slot is None.
FlamencoApiClientStep(slot, all, manager_url) ==
    IF slot # 0
    THEN [slot |-> slot, all |-> all, created |-> FALSE]
    ELSE [slot |-> Len(all) + 1,
          all |-> Append(all, ApiClient(RStrip(manager_url, "/"))),
          created |-> TRUE]

\* discard_flamenco_data: nothing when the slot is None; else the client is
\* closed and the slot reset. closed is the client it closed, 0 for none.
DiscardStep(slot, all) ==
    IF slot = 0
    THEN [slot |-> slot, all |-> all, closed |-> 0]
    ELSE [slot |-> 0,
          all |-> [all EXCEPT ![slot].closes = @ + 1],
          closed |-> slot]

FlamencoApiClient(manager_url) ==
    LET step == FlamencoApiClientStep(flamenco_client, clients, manager_url)
    IN  /\ Len(step.all) <= MaxClients
        /\ flamenco_client' = step.slot
        /\ clients' = step.all
        /\ last' = [op |-> "flamenco_api_client", manager_url |-> manager_url,
                    client |-> step.slot, created |-> step.created]
        /\ UNCHANGED <<threads, cache, disk, job_type_sel, worker_tag_sel, status_ping>>

\* discard_flamenco_data leaves manager_info._cached_manager_info alone.
DiscardFlamencoData ==
    LET step == DiscardStep(flamenco_client, clients)
    IN  /\ flamenco_client' = step.slot
        /\ clients' = step.all
        /\ last' = [op |-> "discard_flamenco_data", closed |-> step.closed]
        /\ UNCHANGED <<threads, cache, disk, job_type_sel, worker_tag_sel, status_ping>>

-----------------------------------------------------------------------------
(* manager_info.fetch, statement by statement, on several threads *)

\* The threads that can be inside fetch at once.
Threads == {1, 2}

\* The frame of a thread: pc is 0 outside fetch, k before the k-th remote
\* call, 5 before the assignment of the slot; met is how the calls made so
\* far ended (the locals they bound); round counts the thread's fetches.
Frame(pc, round, met) == [pc |-> pc, round |-> round, met |-> met]

\* A thread that has not called fetch yet.
Idle == Frame(0, 0, <<>>)

\* How the k-th call can end while the Manager changes between calls: with
\* its part of one of two snapshots, or out of retries.
CallResponses ==
    [k \in DOMAIN FetchCalls |->
        {Healthy(info)[k] : info \in {SampleInfo, BareInfo}}
        \cup {Raise(exc) : exc \in {e \in Exceptions : e.cls = "MaxRetryError"}}]

\* Mutant of CacheAfterCall: the slot is updated in place, one field per
\* answer, as the answers arrive.
CacheAfterCallWritesField(old, met) ==
    IF old = None \/ met[Len(met)].raised
    THEN old
    ELSE [old EXCEPT ![FieldNames[Len(met)]] = met[Len(met)].value]

\* The slot after a remote call of fetch: the call binds a local and the
\* slot is not written.
CacheAfterCall(old, met) == old

\* A thread enters fetch.
FetchBegin(t) ==
    /\ threads[t].pc = 0
    /\ threads[t].round < MaxFetches
    /\ threads' = [threads EXCEPT ![t] = Frame(1, threads[t].round + 1, <<>>)]
    /\ UNCHANGED <<cache, disk, job_type_sel, worker_tag_sel, status_ping, last,
                   flamenco_client, clients>>

\* The thread's next remote call returns, or raises and fetch raises
\* FetchError out of the thread's frame.
FetchCall(t, response) ==
    LET frame == threads[t]
        met == Append(frame.met, response)
    IN  /\ frame.pc \in DOMAIN FetchCalls
        /\ response \in CallResponses[frame.pc]
        /\ cache' = CacheAfterCall(cache, met)
        /\ IF response.raised
           THEN /\ threads' = [threads EXCEPT ![t] = Frame(0, frame.round, <<>>)]
                /\ last' = [op |-> "fetch", thread |-> t, responses |-> met,
                            result |-> FetchResult(met)]
           ELSE /\ threads' = [threads EXCEPT ![t] = Frame(frame.pc + 1, frame.round, met)]
                /\ UNCHANGED last
        /\ UNCHANGED <<disk, job_type_sel, worker_tag_sel, status_ping,
                       flamenco_client, clients>>

\* The thread assigns _cached_manager_info and returns it.
FetchAssign(t) ==
    LET frame == threads[t]
        result == FetchResult(frame.met)
    IN  /\ frame.pc = 5
        /\ cache' = CacheAfterFetch(cache, result)
        /\ threads' = [threads EXCEPT ![t] = Frame(0, frame.round, <<>>)]
        /\ last' = [op |-> "fetch", thread |-> t, responses |-> frame.met,
                    result |-> result]
        /\ UNCHANGED <<disk, job_type_sel, worker_tag_sel, status_ping,
                       flamenco_client, clients>>

-----------------------------------------------------------------------------
(* The add-on in Blender: refreshes, the user's choices among what the     *)
(* enums offer, and the cache file deleted or damaged in between.          *)

Init ==
    /\ cache = None
    /\ disk = NoFile
    /\ job_type_sel = Unset
    /\ worker_tag_sel = Unset
    /\ status_ping = ""
    /\ last = [op |-> "start"]
    /\ flamenco_client = 0
    /\ clients = <<>>
    /\ threads = [t \in Threads |-> Idle]

\* read_text can fail only where the file is read.
ReadOutcomes(slot) == IF slot = None THEN BOOLEAN ELSE {TRUE}

\* What the cache file becomes when it is deleted or damaged.
DamagedFiles == {NoFile, File(MalformedText)}

Next ==
    \/ \E responses \in Responses, readable \in BOOLEAN :
          /\ readable \in ReadOutcomes(CacheAfterFetch(cache, FetchResult(responses)))
          /\ PingManager(responses, readable)
    \/ \E name \in JobTypeNames : SelectJobType(name)
    \/ \E id \in TagIds \cup {"-"}, readable \in ReadOutcomes(cache) :
          SelectWorkerTag(id, readable)
    \/ \E file \in DamagedFiles : DiskChanges(file)

Spec == Init /\ [][Next]_vars

-----------------------------------------------------------------------------
(* The module manager_info on its own: its functions, and the enum callback *)
(* that reads it, called in any order.                                      *)
(* save is handed the snapshot fetch returned, which is the one in the slot. *)

NextStore ==
    \/ \E responses \in Responses : Fetch(responses)
    \/ \E info \in {cache} \ {None} : Save(info)
    \/ \E readable \in BOOLEAN : Load(readable)
    \/ \E readable \in BOOLEAN : LoadIntoCache(readable)
    \/ \E readable \in ReadOutcomes(cache) : LoadCached(readable)
    \/ \E readable \in ReadOutcomes(cache) : GetEnumItems(readable)
    \/ \E file \in ForeignFiles : DiskChanges(file)

SpecStore == Init /\ [][NextStore]_vars

-----------------------------------------------------------------------------
(* comms and manager_info in one process: the API client made and          *)
(* discarded while the slot is fetched, reloaded and read.                 *)

\* Two Managers that answer, and one whose last call runs out of retries.
TeardownResponses ==
    {Healthy(SampleInfo), Healthy(BareInfo)}
    \cup {Faulty(SampleInfo, 4, exc) : exc \in {e \in Exceptions : e.cls = "MaxRetryError"}}

\* The cache file missing, damaged, or left by an earlier run.
TeardownFiles == {NoFile, File(MalformedText), File(ToJson(BareInfo))}

NextTeardown ==
    \/ \E manager_url \in ManagerUrls : FlamencoApiClient(manager_url)
    \/ DiscardFlamencoData
    \/ \E responses \in TeardownResponses : Fetch(responses)
    \/ \E readable \in BOOLEAN : LoadIntoCache(readable)
    \/ \E readable \in ReadOutcomes(cache) : LoadCached(readable)
    \/ \E file \in TeardownFiles : DiskChanges(file)

SpecTeardown == Init /\ [][NextTeardown]_vars

-----------------------------------------------------------------------------
(* Refreshes on two threads, interleaved statement by statement. *)

NextInterleaved ==
    \/ \E t \in Threads : FetchBegin(t)
    \/ \E t \in Threads, k \in DOMAIN FetchCalls :
          \E response \in CallResponses[k] : FetchCall(t, response)
    \/ \E t \in Threads : FetchAssign(t)

SpecInterleaved == Init /\ [][NextInterleaved]_vars

-----------------------------------------------------------------------------
(* Properties of fetch, under SpecStore. *)

\* The step just taken was a call of fetch that raised / that returned.
FetchRaised == last'.op = "fetch" /\ last'.result.raised
FetchReturned == last'.op = "fetch" /\ ~last'.result.raised

\* C1: fetch returns a snapshot only if all four remote calls answered; when
\* one of them raised, at whichever position, fetch returns no snapshot and
\* both the slot and the file are what they were before the call.
C1_FetchFailureChangesNothing ==
    [][/\ FetchReturned => \A i \in DOMAIN FetchCalls : ~last'.responses[i].raised
       /\ FetchRaised => /\ \E i \in DOMAIN FetchCalls : last'.responses[i].raised
                         /\ cache' = cache
                         /\ disk' = disk]_vars

\* A fetch whose last call raised has run with a snapshot in the slot and a
\* file on disk.
C1_Witness ==
    /\ last.op = "fetch"
    /\ last.result.raised
    /\ last.result.call = 4
    /\ cache # None
    /\ disk.exists

\* C2, as claimed: a fetch that returns a snapshot leaves the slot as it was.
C2_FetchLeavesSlot ==
    [][FetchReturned => cache' = cache]_vars

\* C2, amended: a fetch that returns a snapshot has put that snapshot in the
\* slot, replacing what the slot held; the file is not written.
C2_FetchFillsSlot ==
    [][FetchReturned => /\ cache' = last'.result.value
                        /\ disk' = disk]_vars

\* A fetch has returned a snapshot that differs from the one on disk.
C2_Witness ==
    /\ last.op = "fetch"
    /\ ~last.result.raised
    /\ cache = last.result.value
    /\ disk.exists
    /\ disk # DiskAfterSave(cache)

\* C3: the text of the FetchError is exactly "Manager cannot be reached" for
\* the max-retries condition, although that is an HTTPError too; it is
\* "Manager cannot be reached: <detail>" for another HTTPError and for an
\* API-level error, <detail> being the text of the error caught.
C3_FailureClassification ==
    (last.op = "fetch" /\ last.result.raised) =>
        LET exc == last.responses[last.result.call].exc
        IN  /\ exc.cls = "MaxRetryError" =>
                  last.result.text = "Manager cannot be reached"
            /\ ("HTTPError" \in ClassesOf(exc.cls) /\ exc.cls # "MaxRetryError") =>
                  last.result.text = "Manager cannot be reached: " \o exc.text
            /\ exc.cls = "ApiException" =>
                  last.result.text = "Manager cannot be reached: " \o exc.text

\* fetch has raised for a max-retries condition.
C3_Witness ==
    /\ last.op = "fetch"
    /\ last.result.raised
    /\ last.responses[last.result.call].exc.cls = "MaxRetryError"
    /\ last.result.text = "Manager cannot be reached"

-----------------------------------------------------------------------------
(* Properties of ping_manager, under Spec. *)

\* The refresh just run, when its fetch raised / returned.
RefreshFailed == last.op = "ping_manager" /\ last.fetch.raised
Refreshed == last.op = "ping_manager" /\ ~last.fetch.raised

\* The names of the job types and the ids of the worker tags of a snapshot.
JobTypeNamesOf(info) ==
    {info.job_types.attrs.job_types[i].attrs.name :
        i \in DOMAIN info.job_types.attrs.job_types}
TagIdsOf(info) ==
    {info.worker_tags.attrs.tags[i].attrs.id :
        i \in DOMAIN info.worker_tags.attrs.tags}

JobTypeMessage(name) ==
    "Job type '" \o name \o "' no longer available, choose another one"
TagMessage(id) ==
    "Tag '" \o id \o "' no longer available, choose another one"

\* C4: a refresh whose fetch raised returns (the FetchError's text, ERROR),
\* has set the status text to that text, has assigned or cleared neither
\* selection, and has written neither the slot nor the file; for the
\* max-retries condition the report is exactly "Manager cannot be reached".
C4_RefreshFailureChangesNothing ==
    [][(last'.op = "ping_manager" /\ last'.fetch.raised) =>
          /\ last'.report = last'.fetch.text
          /\ last'.level = "ERROR"
          /\ status_ping' = last'.fetch.text
          /\ job_type_sel' = job_type_sel
          /\ worker_tag_sel' = worker_tag_sel
          /\ ~last'.job_type.assigned /\ ~last'.job_type.cleared
          /\ ~last'.tag.assigned /\ ~last'.tag.cleared
          /\ cache' = cache
          /\ disk' = disk
          /\ last'.fetch.cause.cls = "MaxRetryError" =>
                last'.report = "Manager cannot be reached"]_vars

\* A refresh has failed on the max-retries condition with both selections
\* set, a snapshot in the slot and another file on disk.
C4_Witness ==
    /\ RefreshFailed
    /\ last.fetch.cause.cls = "MaxRetryError"
    /\ last.report = "Manager cannot be reached"
    /\ job_type_sel # Unset
    /\ worker_tag_sel # Unset
    /\ cache # None
    /\ disk # DiskAfterSave(cache)

\* C5, as claimed: after a refresh whose fetch returned, an old selection
\* that is non-empty and not among the new snapshot's job-type names, or
\* worker-tag ids, is unset and its warning has been made.
C5_StaleSelectionCleared ==
    Refreshed =>
        /\ (last.old_job_type_name # ""
              /\ last.old_job_type_name \notin JobTypeNamesOf(last.fetch.value)) =>
                /\ job_type_sel = Unset
                /\ last.job_type.warning = <<JobTypeMessage(last.old_job_type_name)>>
                /\ last.level = "WARNING"
        /\ (last.old_tag_name # ""
              /\ last.old_tag_name \notin TagIdsOf(last.fetch.value)) =>
                /\ worker_tag_sel = Unset
                /\ last.tag.warning = <<TagMessage(last.old_tag_name)>>
                /\ last.level = "WARNING"

\* C5, amended: the same, but the worker-tag enum also accepts "-" (its
\* entry "All"), so an old tag "-" is not stale.
C5_StaleSelectionClearedButAll ==
    Refreshed =>
        /\ (last.old_job_type_name # ""
              /\ last.old_job_type_name \notin JobTypeNamesOf(last.fetch.value)) =>
                /\ job_type_sel = Unset
                /\ last.job_type.warning = <<JobTypeMessage(last.old_job_type_name)>>
                /\ last.level = "WARNING"
        /\ (last.old_tag_name # ""
              /\ last.old_tag_name \notin TagIdsOf(last.fetch.value) \cup {"-"}) =>
                /\ worker_tag_sel = Unset
                /\ last.tag.warning = <<TagMessage(last.old_tag_name)>>
                /\ last.level = "WARNING"

\* A refresh has cleared the tag "cpu-only", which the Manager no longer has.
C5_Witness ==
    /\ Refreshed
    /\ last.old_tag_name = "cpu-only"
    /\ TagIdsOf(last.fetch.value) = {"gpu"}
    /\ worker_tag_sel = Unset
    /\ last.report = "Tag 'cpu-only' no longer available, choose another one"

\* C6: after a refresh whose fetch returned, an old selection that is
\* non-empty and among the new snapshot's job-type names, or worker-tag ids,
\* is the selection again, and no warning was made for it.
C6_ValidSelectionKept ==
    Refreshed =>
        /\ (last.old_job_type_name # ""
              /\ last.old_job_type_name \in JobTypeNamesOf(last.fetch.value)) =>
                /\ job_type_sel = last.old_job_type_name
                /\ last.job_type.warning = <<>>
        /\ (last.old_tag_name # ""
              /\ last.old_tag_name \in TagIdsOf(last.fetch.value)) =>
                /\ worker_tag_sel = last.old_tag_name
                /\ last.tag.warning = <<>>

\* A refresh has kept the tag "gpu" with no job type chosen.
C6_Witness ==
    /\ Refreshed
    /\ last.old_job_type_name = ""
    /\ last.old_tag_name = "gpu"
    /\ worker_tag_sel = "gpu"
    /\ last.level = "INFO"

\* C7: when a refresh cleared a selection, it returns WARNING with the
\* message of the last selection cleared: the tag's if the tag was cleared,
\* else the job type's, which the tag block does not touch.
C7_LastWarningWins ==
    (Refreshed /\ (last.job_type.cleared \/ last.tag.cleared)) =>
        /\ last.level = "WARNING"
        /\ last.report = IF last.tag.cleared
                         THEN TagMessage(last.old_tag_name)
                         ELSE JobTypeMessage(last.old_job_type_name)
        /\ status_ping = last.report

\* A refresh has cleared both selections.
C7_Witness ==
    /\ Refreshed
    /\ last.job_type.cleared
    /\ last.tag.cleared
    /\ last.report = TagMessage(last.old_tag_name)

\* C8: when the fetch returned and each old selection is empty or still on
\* offer, the refresh returns ("<name> version <version> found", INFO) for
\* the snapshot just fetched; an empty old selection is neither assigned
\* nor cleared and stays unset.
C8_FoundReport ==
    Refreshed =>
        /\ ((last.old_job_type_name = ""
               \/ last.old_job_type_name \in JobTypeNamesOf(last.fetch.value))
            /\ (last.old_tag_name = ""
               \/ last.old_tag_name \in TagIdsOf(last.fetch.value) \cup {"-"})) =>
                /\ last.report = last.fetch.value.flamenco_version.attrs.name
                                    \o " version "
                                    \o last.fetch.value.flamenco_version.attrs.version
                                    \o " found"
                /\ last.level = "INFO"
                /\ cache = last.fetch.value
        /\ last.old_job_type_name = "" =>
                /\ ~last.job_type.assigned /\ ~last.job_type.cleared
                /\ job_type_sel = Unset
        /\ last.old_tag_name = "" =>
                /\ ~last.tag.assigned /\ ~last.tag.cleared
                /\ worker_tag_sel = Unset

\* A refresh with nothing selected has found a Manager of version 3.5.
C8_Witness ==
    /\ Refreshed
    /\ last.old_job_type_name = ""
    /\ last.old_tag_name = ""
    /\ last.report = "Flamenco version 3.5 found"
    /\ last.level = "INFO"

-----------------------------------------------------------------------------
(* Properties of the codec and of load, under SpecStore. *)

\* The API class each field of a ManagerInfo holds.
FieldClasses ==
    [flamenco_version |-> "FlamencoVersion",
     shared_storage |-> "SharedStorageLocation",
     job_types |-> "AvailableJobTypes",
     worker_tags |-> "WorkerTagList"]

\* C9: decoding what was encoded gives the snapshot back, each field as a
\* model of its own class: after save(s) the file decodes to s, and a load
\* that reads a file written by save(s) returns s.
C9_RoundTrip ==
    /\ last.op = "save" =>
          /\ disk = File(ToJson(last.info))
          /\ FromJson(disk.text) = Return(last.info)
          /\ \A f \in DOMAIN FieldClasses :
                FromJson(disk.text).value[f].type = FieldClasses[f]
    /\ (last.op = "load" /\ last.readable) =>
          \A s \in ManagerInfos :
             disk = File(ToJson(s)) => last.result = Return(s)

\* load has returned a snapshot with two worker tags, one with and one
\* without a description, from the file save wrote.
C9_Witness ==
    /\ last.op = "load"
    /\ ~last.result.raised
    /\ disk = File(ToJson(last.result.value))
    /\ Len(last.result.value.worker_tags.attrs.tags) = 2
    /\ last.result.value \in ManagerInfos

\* C10: decoding is all or nothing with one kind of error: load of a
\* well-formed document that lacks one of the four keys fails with LoadError,
\* the error load raises for malformed JSON, and returns no snapshot.
C10_DecodeFailsWithLoadError ==
    (last.op = "load" /\ last.readable /\ disk.exists) =>
        /\ ~disk.text.wellformed =>
              last.result = Raise("LoadError")
        /\ disk.text \in DocsMissingKey =>
              last.result = Raise("LoadError")

-----------------------------------------------------------------------------
(* Properties of the cache store, under SpecStore. *)

\* C11: whatever the cache file is (missing, unreadable, malformed, lacking
\* one of the four keys), load_into_cache and load_cached return None
\* without raising, and the worker-tag enum callback then gives the
\* placeholder. (The slot is None after these calls exactly when load did
\* not return a snapshot.)
C11_CacheFailuresAbsorbed ==
    (/\ last.op \in {"load_into_cache", "load_cached", "_get_enum_items"}
     /\ cache = None
     /\ ~(disk.exists /\ disk.text \in DocsInvalidField)) =>
        /\ ~last.result.raised
        /\ last.result.value = IF last.op = "_get_enum_items"
                               THEN EnumItems(None)
                               ELSE None

-----------------------------------------------------------------------------
(* Properties of the slot's life, under SpecTeardown. *)

\* The step just taken was a fetch that returned, or a load_into_cache or
\* load_cached that returned a snapshot read from the file.
FetchedNow == last'.op = "fetch" /\ ~last'.result.raised
ReloadedNow ==
    /\ last'.op \in {"load_into_cache", "load_cached"}
    /\ ~last'.result.raised
    /\ last'.result.value # None
    /\ disk.exists
    /\ FromJson(disk.text) = Return(last'.result.value)

\* The step just taken was a load_into_cache that did not return a snapshot.
ReloadFailedNow ==
    /\ last'.op = "load_into_cache"
    /\ (last'.result.raised \/ last'.result.value = None)

\* C12, as claimed: the slot is None at the start; a step that changes it
\* is a fetch that returned or a reload that succeeded, putting that
\* snapshot in the slot, or else teardown, emptying it; and a
\* load_into_cache that does not succeed leaves the slot as it was.
C12_SlotLifecycle ==
    [][/\ last.op = "start" => cache = None
       /\ cache' # cache =>
             \/ (FetchedNow \/ ReloadedNow) /\ cache' = last'.result.value
             \/ last'.op = "discard_flamenco_data" /\ cache' = None
       /\ ReloadFailedNow => cache' = cache]_vars

\* C12, amended: the same, but a load_into_cache that does not succeed
\* leaves the slot None, whatever it held: that is one more way for the
\* slot to become None.
C12_SlotLifecycleReloadEmpties ==
    [][/\ last.op = "start" => cache = None
       /\ cache' # cache =>
             \/ (FetchedNow \/ ReloadedNow) /\ cache' = last'.result.value
             \/ last'.op = "discard_flamenco_data" /\ cache' = None
             \/ ReloadFailedNow /\ cache' = None
       /\ ReloadFailedNow => cache' = None]_vars

\* A load_into_cache called with a snapshot in the slot has found the file
\* malformed, and the slot is None.
C12_Witness ==
    /\ last.op = "load_into_cache"
    /\ last.had_snapshot
    /\ last.result = Return(None)
    /\ disk = File(MalformedText)
    /\ cache = None

\* C13: discard_flamenco_data leaves the slot None, so a load_cached right
\* after it, with no cache file, returns None.
C13_TeardownClearsCache ==
    [][/\ last'.op = "discard_flamenco_data" => cache' = None
       /\ (last.op = "discard_flamenco_data" /\ last'.op = "load_cached"
             /\ ~disk.exists) => last'.result = Return(None)]_vars

-----------------------------------------------------------------------------
(* Properties of load_cached and of the enum callback, under SpecStore. *)

\* C14: load_cached with a snapshot in the slot returns it and leaves the
\* slot, whatever the file is; with the slot None it returns the snapshot
\* the file decodes to and leaves it in the slot, or, when the file is
\* missing, unreadable or malformed, returns None and leaves the slot None.
\* The file is never written.
C14_LoadCached ==
    [][last'.op = "load_cached" =>
          /\ disk' = disk
          /\ IF cache # None
             THEN /\ last'.result = Return(cache)
                  /\ cache' = cache
             ELSE /\ \A s \in ManagerInfos :
                        (disk = File(ToJson(s)) /\ last'.readable) =>
                            /\ last'.result = Return(s)
                            /\ cache' = s
                  /\ (~disk.exists \/ ~last'.readable \/ ~disk.text.wellformed) =>
                        /\ last'.result = Return(None)
                        /\ cache' = None]_vars

\* load_cached has returned the snapshot in the slot while the file holds
\* another one.
C14_Witness ==
    /\ last.op = "load_cached"
    /\ cache # None
    /\ last.result = Return(cache)
    /\ disk = File(ToJson(SampleInfo))
    /\ cache # SampleInfo

-----------------------------------------------------------------------------
(* Properties of interleaved refreshes, under SpecInterleaved. *)

\* C15: the slot is None at the start, and every step that changes it is
\* the assignment by one thread whose four remote calls of its current
\* fetch all returned, and puts in the slot the snapshot made of exactly
\* those four answers; no remote call, of this or another thread, writes
\* the slot.
C15_NoPartialSnapshot ==
    [][/\ last.op = "start" => cache = None
       /\ cache' # cache =>
             \E t \in Threads :
                /\ threads[t].pc = 5
                /\ Len(threads[t].met) = 4
                /\ \A i \in 1..4 : ~threads[t].met[i].raised
                /\ \A i \in 1..4 : cache'[FieldNames[i]] = threads[t].met[i].value
                /\ DOMAIN cache' = Range(FieldNames)
                /\ threads'[t].pc = 0
                /\ \A u \in Threads \ {t} : threads'[u] = threads[u]]_vars

\* Thread 2 has assigned the slot while thread 1, which holds two answers
\* of a Manager in another state, is between its remote calls.
C15_Witness ==
    /\ last.op = "fetch"
    /\ last.thread = 2
    /\ ~last.result.raised
    /\ cache = last.result.value
    /\ cache = BareInfo
    /\ threads[1].pc = 4
    /\ threads[1].met[1].value = SampleInfo.flamenco_version
    /\ threads[1].met[3].value = SampleInfo.job_types

-----------------------------------------------------------------------------
(* Properties of the order of a refresh, under Spec. *)

\* The identifiers the worker-tag enum offers for a snapshot.
TagIdentifiersOf(info) == Identifiers(Return(EnumItems(info)))

\* C16: the old values a refresh works with are the selections as they were
\* when it began; when its fetch returned, the slot holds the new snapshot
\* and the file its encoding, and each non-empty old selection was assigned
\* if the enum of the new snapshot accepts it and cleared if not, whatever
\* the slot held before.
C16_RefreshOrder ==
    [][last'.op = "ping_manager" =>
          /\ last'.old_job_type_name = job_type_sel
          /\ last'.old_tag_name = worker_tag_sel
          /\ ~last'.fetch.raised =>
                /\ cache' = last'.fetch.value
                /\ disk' = File(ToJson(last'.fetch.value))
                /\ last'.old_job_type_name # "" =>
                      /\ last'.job_type.assigned <=>
                            last'.old_job_type_name \in JobTypeNamesOf(last'.fetch.value)
                      /\ last'.job_type.cleared <=> ~last'.job_type.assigned
                /\ last'.old_tag_name # "" =>
                      /\ last'.tag.assigned <=>
                            last'.old_tag_name \in TagIdentifiersOf(last'.fetch.value)
                      /\ last'.tag.cleared <=> ~last'.tag.assigned]_vars

\* A refresh has kept the job type, which the new snapshot still has, and
\* cleared the tag "gpu", which only the snapshot cached before had.
C16_Witness ==
    /\ Refreshed
    /\ last.old_job_type_name = "render"
    /\ last.job_type.assigned
    /\ last.old_tag_name = "gpu"
    /\ last.tag.cleared
    /\ "gpu" \notin TagIdentifiersOf(cache)
    /\ disk = File(ToJson(cache))

-----------------------------------------------------------------------------
(* Properties of the worker-tag enum, under SpecStore. *)

\* C17: when the enum callback returns with the slot None (load_cached gave
\* no snapshot) its list is the one placeholder ("-", "-tags unknown-"); when
\* the slot holds a snapshot (the one load_cached gave) the list is
\* ("-", "All") and then, for the i-th worker tag of the snapshot, the i-th
\* entry (id, name, description or ""): as many entries as tags, in order.
C17_EnumItems ==
    (last.op = "_get_enum_items" /\ ~last.result.raised) =>
        LET items == last.result.value
        IN  IF cache = None
            THEN /\ Len(items) = 1
                 /\ items[1][1] = "-"
                 /\ items[1][2] = "-tags unknown-"
            ELSE LET tags == cache.worker_tags.attrs.tags
                 IN  /\ Len(items) = 1 + Len(tags)
                     /\ items[1][1] = "-"
                     /\ items[1][2] = "All"
                     /\ \A i \in DOMAIN tags :
                           /\ items[i + 1][1] = tags[i].attrs.id
                           /\ items[i + 1][2] = tags[i].attrs.name
                           /\ items[i + 1][3] =
                                 IF "description" \in DOMAIN tags[i].attrs
                                 THEN tags[i].attrs.description
                                 ELSE ""

\* The enum callback has listed "cpu-only", which has no description,
\* before "gpu", as the Manager sent them.
C17_Witness ==
    /\ last.op = "_get_enum_items"
    /\ ~last.result.raised
    /\ cache # None
    /\ Len(last.result.value) = 3
    /\ last.result.value[2] = <<"cpu-only", "CPU only", "">>
    /\ last.result.value[3] = <<"gpu", "GPU", "Has a GPU">>

-----------------------------------------------------------------------------
(* Coherence of the slot and the file after a refresh, under Spec. *)

\* C18: when a refresh returns INFO or WARNING its fetch returned a
\* snapshot, the slot holds that snapshot, and the file holds its encoding
\* and decodes to it; when it returns ERROR the slot and the file are what
\* they were before the refresh.
C18_CacheDiskCoherence ==
    [][last'.op = "ping_manager" =>
          IF last'.level \in {"INFO", "WARNING"}
          THEN /\ ~last'.fetch.raised
               /\ cache' = last'.fetch.value
               /\ disk' = File(ToJson(last'.fetch.value))
               /\ FromJson(disk'.text) = Return(cache')
          ELSE /\ last'.level = "ERROR"
               /\ cache' = cache
               /\ disk' = disk]_vars

\* A refresh that warned about the job type has left the fetched snapshot,
\* with two worker tags, both in the slot and in the file.
C18_Witness ==
    /\ Refreshed
    /\ last.level = "WARNING"
    /\ last.job_type.cleared
    /\ cache = last.fetch.value
    /\ Len(cache.worker_tags.attrs.tags) = 2
    /\ disk.exists
    /\ FromJson(disk.text) = Return(cache)

-----------------------------------------------------------------------------
(* Properties of the API client, under SpecTeardown. *)

\* The clients constructed and not closed.
OpenClients == {i \in DOMAIN clients : clients[i].closes = 0}

\* host is manager_url without the slashes at its end.
IsStripped(host, manager_url) ==
    /\ host = <<>> \/ host[Len(host)] # "/"
    /\ \E n \in 0..Len(manager_url) :
          manager_url = host \o [i \in 1..n |-> "/"]

\* C19: at most one client is open at any time, the one in the slot, and no
\* client is closed twice. flamenco_api_client returns the client in the
\* slot, whatever URL it is given, and constructs one only when the slot is
\* None: a new object for the URL without its trailing slashes, which it
\* puts in the slot. discard_flamenco_data does nothing when the slot is
\* None; else it closes the client in the slot, once, and resets the slot.
C19_ClientSingleton ==
    [][/\ Cardinality(OpenClients) <= 1
       /\ OpenClients = IF flamenco_client = 0 THEN {} ELSE {flamenco_client}
       /\ \A i \in DOMAIN clients : clients[i].closes <= 1
       /\ last'.op = "flamenco_api_client" =>
             /\ last'.client = flamenco_client'
             /\ IF flamenco_client # 0
                THEN /\ flamenco_client' = flamenco_client
                     /\ clients' = clients
                     /\ ~last'.created
                ELSE /\ flamenco_client' = Len(clients) + 1
                     /\ Len(clients') = Len(clients) + 1
                     /\ \A i \in DOMAIN clients : clients'[i] = clients[i]
                     /\ clients'[flamenco_client'].closes = 0
                     /\ IsStripped(clients'[flamenco_client'].host, last'.manager_url)
                     /\ last'.created
       /\ last'.op = "discard_flamenco_data" =>
             /\ flamenco_client' = 0
             /\ last'.closed = flamenco_client
             /\ DOMAIN clients' = DOMAIN clients
             /\ \A i \in DOMAIN clients :
                   /\ clients'[i].host = clients[i].host
                   /\ clients'[i].closes =
                         clients[i].closes + (IF i = flamenco_client THEN 1 ELSE 0)]_vars

\* After a teardown, a second client was constructed for "/n/"; a later call
\* with the URL "m//" has returned that same client.
C19_Witness ==
    /\ Len(clients) = 2
    /\ clients[1].closes = 1
    /\ flamenco_client = 2
    /\ clients[2] = [host |-> <<"/", "n">>, closes |-> 0]
    /\ last.op = "flamenco_api_client"
    /\ last.manager_url = <<"m", "/", "/">>
    /\ last.client = 2
    /\ ~last.created

====
